---- MODULE Spec2Model ----
(***************************************************************************)
(* Model of the mock SNMP manager of the web server:                       *)
(*   web-server/services/snmpManagerService.js  (SNMPManagerService)       *)
(*   web-server/routes/traps.js                 (trap history)             *)
(*   web-server/routes/snmp.js                  (routes of /api/snmp)      *)
(*                                                                         *)
(* A JavaScript string is a sequence of one-character strings, so that     *)
(* split / Number / join / startsWith are computed character by character. *)
(* Arcs stay far below 2^53, where Number arithmetic is exact.             *)
(* An async method that throws is modelled by the value its caller gets: a *)
(* result object, or the Error thrown.  The timestamp field of a result    *)
(* and the log lines are left out.                                         *)
(*   req  - the operation and OID of the last call to the service          *)
(*   res  - what that call returned or threw                               *)
(*   http - the response to the last HTTP request modelled                 *)
(***************************************************************************)
EXTENDS Integers, Sequences, FiniteSets, TLC

VARIABLES connected, trapListeners, req, res,
          pc, k, len, event, invoked, caught, snapshot, touched,
          traps, now, nseq, done,
          http, chain, walk, published,
          devices, nuuid

vars == <<connected, trapListeners, req, res,
          pc, k, len, event, invoked, caught, snapshot, touched,
          traps, now, nseq, done,
          http, chain, walk, published,
          devices, nuuid>>

snmpVars == <<connected, req, res>>
dispatchVars ==
  <<trapListeners, pc, k, len, event, invoked, caught, snapshot, touched>>
historyVars == <<traps, now, nseq, done>>
otherVars == <<http, chain, walk, published>>
deviceVars == <<devices, nuuid>>

Range(s) == {s[i] : i \in DOMAIN s}

(***************************************************************************)
(* Strings                                                                 *)
(***************************************************************************)
Digits == <<"0", "1", "2", "3", "4", "5", "6", "7", "8", "9">>

DigitVal(c) == CHOOSE d \in 0..9 : Digits[d + 1] = c

\* Number(part) for a part made of decimal digits; Number("") is 0
RECURSIVE NumberUpTo(_, _)
NumberUpTo(s, n) ==
  IF n = 0 THEN 0 ELSE NumberUpTo(s, n - 1) * 10 + DigitVal(s[n])

Number(s) == NumberUpTo(s, Len(s))

\* String(n) of a non-negative integer: decimal, no leading zeros
RECURSIVE NumberToString(_)
NumberToString(n) ==
  IF n < 10 THEN <<Digits[n + 1]>>
  ELSE NumberToString(n \div 10) \o <<Digits[(n % 10) + 1]>>

\* s.split('.'): the characters from position i on, added to the parts so far
RECURSIVE splitFrom(_, _, _)
splitFrom(s, i, parts) ==
  IF i > Len(s) THEN parts
  ELSE IF s[i] = "." THEN splitFrom(s, i + 1, Append(parts, <<>>))
  ELSE splitFrom(s, i + 1,
                 [parts EXCEPT ![Len(parts)] = Append(parts[Len(parts)], s[i])])

split(s) == splitFrom(s, 1, << <<>> >>)

\* parts.join('.') of an array of numbers
RECURSIVE join(_)
join(parts) ==
  IF parts = <<>> THEN <<>>
  ELSE IF Len(parts) = 1 THEN NumberToString(parts[1])
  ELSE NumberToString(parts[1]) \o <<".">> \o join(Tail(parts))

\* s.startsWith(p): character-wise prefix
startsWith(s, p) ==
  /\ Len(p) <= Len(s)
  /\ SubSeq(s, 1, Len(p)) = p

\* the dotted-decimal text of a sequence of arcs
Oid(arcs) == join(arcs)

\* /^[0-9]+(\.[0-9]+)*$/
WellFormed(s) ==
  /\ s # <<>>
  /\ \A i \in 1..Len(s) : s[i] = "." \/ \E d \in 1..10 : Digits[d] = s[i]
  /\ <<>> \notin Range(split(s))

\* the arcs a well-formed OID text denotes
ArcsOfParts(strs) == [i \in 1..Len(strs) |-> Number(strs[i])]

Arcs(s) == ArcsOfParts(split(s))

(***************************************************************************)
(* OID order and structural prefix (the terms the claims are stated in)    *)
(***************************************************************************)
IsPrefixOf(a, b) ==
  /\ Len(a) <= Len(b)
  /\ SubSeq(b, 1, Len(a)) = a

IsProperPrefixOf(a, b) == IsPrefixOf(a, b) /\ Len(a) < Len(b)

\* arc-by-arc order; a proper prefix is less than its extensions
OidLess(a, b) ==
  \/ IsProperPrefixOf(a, b)
  \/ \E i \in 1..Len(a) :
       /\ i <= Len(b)
       /\ \A j \in 1..(i - 1) : a[j] = b[j]
       /\ a[i] < b[i]

(***************************************************************************)
(* getMockSnmpData                                                         *)
(***************************************************************************)
undefined == [undefined |-> TRUE]

Entry(v, t, n, a) == [value |-> v, type |-> t, name |-> n, access |-> a]

mockData ==
  (Oid(<<1, 3, 6, 1, 2, 1, 1, 1, 0>>) :>
     Entry("Cisco IOS Software, Version 15.1(4)M12a", "OCTET STRING", "sysDescr", "read-only")) @@
  (Oid(<<1, 3, 6, 1, 2, 1, 1, 2, 0>>) :>
     Entry("1.3.6.1.4.1.9.1.1", "OBJECT IDENTIFIER", "sysObjectID", "read-only")) @@
  (Oid(<<1, 3, 6, 1, 2, 1, 1, 3, 0>>) :>
     Entry("123456789", "TimeTicks", "sysUpTime", "read-only")) @@
  (Oid(<<1, 3, 6, 1, 2, 1, 1, 4, 0>>) :>
     Entry("admin@company.com", "OCTET STRING", "sysContact", "read-write")) @@
  (Oid(<<1, 3, 6, 1, 2, 1, 1, 5, 0>>) :>
     Entry("Router-01", "OCTET STRING", "sysName", "read-write")) @@
  (Oid(<<1, 3, 6, 1, 2, 1, 1, 6, 0>>) :>
     Entry("Data Center Rack 1", "OCTET STRING", "sysLocation", "read-write")) @@
  (Oid(<<1, 3, 6, 1, 2, 1, 2, 1, 0>>) :>
     Entry("3", "INTEGER", "ifNumber", "read-only")) @@
  (Oid(<<1, 3, 6, 1, 2, 1, 2, 2, 1, 2, 1>>) :>
     Entry("GigabitEthernet0/0", "OCTET STRING", "ifDescr.1", "read-only")) @@
  (Oid(<<1, 3, 6, 1, 2, 1, 2, 2, 1, 2, 2>>) :>
     Entry("GigabitEthernet0/1", "OCTET STRING", "ifDescr.2", "read-only")) @@
  (Oid(<<1, 3, 6, 1, 2, 1, 2, 2, 1, 2, 3>>) :>
     Entry("GigabitEthernet0/2", "OCTET STRING", "ifDescr.3", "read-only"))

getMockSnmpData(oid) ==
  IF oid \in DOMAIN mockData THEN mockData[oid] ELSE undefined

\* the stored OIDs, as texts and as arcs
StoredOids == DOMAIN mockData
StoredArcs == {Arcs(o) : o \in StoredOids}

(***************************************************************************)
(* getNextOid                                                              *)
(***************************************************************************)
\* oid.split('.').map(Number)
mapNumber(strs) == [i \in 1..Len(strs) |-> Number(strs[i])]

\* an increment that goes from 3 back to 1
incrementLast_Wrap(parts) ==
  [parts EXCEPT ![Len(parts)] = (parts[Len(parts)] % 3) + 1]

\* parts[lastIndex] = parts[lastIndex] + 1
incrementLast(parts) == [parts EXCEPT ![Len(parts)] = parts[Len(parts)] + 1]

\* a next OID that is the requested OID, written canonically
getNextOid_Same(oid) == join(mapNumber(split(oid)))

getNextOid(oid) == join(incrementLast(mapNumber(split(oid))))

(***************************************************************************)
(* Requests: the devices the routes pass in, and the OID texts tried       *)
(***************************************************************************)
\* getDeviceById's table, reduced to the fields the service echoes
Devices ==
  { [id |-> "1", name |-> "Router-01", ipAddress |-> "192.168.1.1"],
    [id |-> "2", name |-> "Switch-01", ipAddress |-> "192.168.1.2"] }

DeviceEcho(device) ==
  [id |-> device.id, name |-> device.name, ipAddress |-> device.ipAddress]

\* how far around the stored OIDs the requested OIDs reach
MaxDelta == 1

\* the common root of the stored OIDs
Mib2 == <<1, 3, 6, 1, 2, 1>>

\* the nodes on the path from mib-2 down to a
Prefixes(a) == {SubSeq(a, 1, n) : n \in Len(Mib2)..Len(a)}

Around(p) ==
  {[p EXCEPT ![Len(p)] = p[Len(p)] + d] :
      d \in {d \in (0 - MaxDelta)..MaxDelta : p[Len(p)] + d >= 0}}
  \cup {p \o <<e>> : e \in 0..MaxDelta}

\* arcs whose texts share characters, but not arcs, with stored OIDs
ExtraArcs ==
  { <<1, 3, 6, 1, 2, 1, 10>>, <<1, 3, 6, 1, 2, 1, 9>>,
    <<1, 3, 6, 1, 2, 1, 19>>, <<1, 3, 6, 1, 2, 1, 1, 9, 0>>,
    <<1, 3, 6, 1, 2, 1, 2, 2, 1, 2, 9>>, <<1, 3, 6, 1, 2, 1, 2, 2, 1, 2, 99>>,
    <<9>>, <<2>>, <<1>>, <<1, 3, 6>> }

ArcInputs ==
  UNION {Around(p) : p \in UNION {Prefixes(a) : a \in StoredArcs}}
  \cup ExtraArcs

\* well-formed texts that are not the canonical text of their arcs
LeadingZeroInputs ==
  { Oid(<<1, 3, 6, 1, 2, 1, 1, 1>>) \o <<".", "0", "0">>,
    Oid(<<1, 3, 6, 1, 2, 1, 1>>) \o <<".", "0", "1", ".", "0">>,
    <<"0", "1">> \o <<".">> \o Oid(<<3, 6, 1, 2, 1, 1>>),
    Oid(<<1, 3, 6, 1, 2, 1, 2, 2, 1, 2>>) \o <<".", "0", "0">>,
    Oid(<<1, 3, 6, 1, 2, 1, 1>>) \o <<".", "0">> \o <<".", "0", "0">> }

OidInputs == {Oid(a) : a \in ArcInputs} \cup LeadingZeroInputs

\* snmpSetSchema: value is a string, type one of 'string', 'integer',
\* 'octet', 'oid'; the service treats every type alike, two are tried
SetValues == {"new-value", "42"}
SetTypes == {"string", "integer"}

(***************************************************************************)
(* What each operation hands back: a result object, or a thrown Error      *)
(***************************************************************************)
NotConnectedError == [text |-> "SNMP Manager not connected"]

NotFoundText == "OID ${oid} not found or not accessible"
ReadOnlyText == "OID ${oid} is read-only and cannot be set"
NoNextText == "No next OID found after ${oid}"

OidError(text, oid) == [text |-> text, oid |-> oid]

\* what the caller of an operation gets when the operation throws err
Thrown(op, err) ==
  [op |-> op, success |-> FALSE, thrown |-> TRUE, error |-> err]

\* a GET that looks the OID up by its canonical text and answers with that text
snmpGetReturn_Canonical(conn, device, oid) ==
  IF ~conn THEN Thrown("get", NotConnectedError)
  ELSE LET canon == join(mapNumber(split(oid)))
           data == getMockSnmpData(canon) IN
    IF data = undefined
    THEN Thrown("get", OidError(NotFoundText, oid))
    ELSE [op |-> "get", success |-> TRUE, oid |-> canon,
          value |-> data.value, type |-> data.type,
          device |-> DeviceEcho(device)]

snmpGetReturn(conn, device, oid) ==
  IF ~conn THEN Thrown("get", NotConnectedError)
  ELSE LET data == getMockSnmpData(oid) IN
    IF data = undefined
    THEN Thrown("get", OidError(NotFoundText, oid))
    ELSE [op |-> "get", success |-> TRUE, oid |-> oid,
          value |-> data.value, type |-> data.type,
          device |-> DeviceEcho(device)]

\* a SET that does not look at the entry's access
snmpSetReturn_NoAccessCheck(conn, device, oid, value, type) ==
  IF ~conn THEN Thrown("set", NotConnectedError)
  ELSE LET data == getMockSnmpData(oid) IN
    IF data = undefined
    THEN Thrown("set", OidError(NotFoundText, oid))
    ELSE [op |-> "set", success |-> TRUE, oid |-> oid,
          oldValue |-> data.value, newValue |-> value, type |-> type,
          device |-> DeviceEcho(device)]

snmpSetReturn(conn, device, oid, value, type) ==
  IF ~conn THEN Thrown("set", NotConnectedError)
  ELSE LET data == getMockSnmpData(oid) IN
    IF data = undefined
    THEN Thrown("set", OidError(NotFoundText, oid))
    ELSE IF data.access = "read-only"
    THEN Thrown("set", OidError(ReadOnlyText, oid))
    ELSE [op |-> "set", success |-> TRUE, oid |-> oid,
          oldValue |-> data.value, newValue |-> value, type |-> type,
          device |-> DeviceEcho(device)]

\* a GETNEXT that does not look at the connected flag
snmpGetNextReturn_Unchecked(conn, device, oid) ==
  LET nextOid == getNextOid(oid)
      data == getMockSnmpData(nextOid) IN
    IF data = undefined
    THEN Thrown("getnext", OidError(NoNextText, oid))
    ELSE [op |-> "getnext", success |-> TRUE, requestedOid |-> oid,
          nextOid |-> nextOid, value |-> data.value, type |-> data.type,
          device |-> DeviceEcho(device)]

snmpGetNextReturn(conn, device, oid) ==
  IF ~conn THEN Thrown("getnext", NotConnectedError)
  ELSE LET nextOid == getNextOid(oid)
           data == getMockSnmpData(nextOid) IN
    IF data = undefined
    THEN Thrown("getnext", OidError(NoNextText, oid))
    ELSE [op |-> "getnext", success |-> TRUE, requestedOid |-> oid,
          nextOid |-> nextOid, value |-> data.value, type |-> data.type,
          device |-> DeviceEcho(device)]

\* router.post('/set'): what the HTTP caller sees of a SET's outcome
routeSetResponse(ret) ==
  IF ret.success
  THEN [status |-> "200", body |-> ret]
  ELSE [status |-> "500",
        body |-> [error |-> "SNMP SET operation failed", message |-> ret.error]]

maxWalkResults == 50

\* the loop without the test that the next OID is still under the root
RECURSIVE walkLoop_NoSubtreeTest(_, _, _, _)
walkLoop_NoSubtreeTest(oid, currentOid, walkCount, results) ==
  IF ~(walkCount < maxWalkResults) THEN results
  ELSE LET nextOid == getNextOid(currentOid)
           data == getMockSnmpData(nextOid) IN
    IF data = undefined THEN results
    ELSE walkLoop_NoSubtreeTest(oid, nextOid, walkCount + 1,
                    Append(results, [oid |-> nextOid, value |-> data.value,
                                     type |-> data.type, name |-> data.name]))

\* the while loop of snmpWalk
RECURSIVE walkLoop(_, _, _, _)
walkLoop(oid, currentOid, walkCount, results) ==
  IF ~(walkCount < maxWalkResults) THEN results
  ELSE LET nextOid == getNextOid(currentOid) IN
    IF ~startsWith(nextOid, oid) THEN results
    ELSE LET data == getMockSnmpData(nextOid) IN
      IF data = undefined THEN results
      ELSE walkLoop(oid, nextOid, walkCount + 1,
                    Append(results, [oid |-> nextOid, value |-> data.value,
                                     type |-> data.type, name |-> data.name]))

\* a WALK that treats an empty result as a missing OID
snmpWalkReturn_ErrorOnEmpty(conn, device, oid) ==
  IF ~conn THEN Thrown("walk", NotConnectedError)
  ELSE LET results == walkLoop(oid, oid, 0, <<>>) IN
    IF results = <<>> THEN Thrown("walk", OidError(NotFoundText, oid))
    ELSE [op |-> "walk", success |-> TRUE, rootOid |-> oid,
          results |-> results, count |-> Len(results),
          device |-> DeviceEcho(device)]

snmpWalkReturn(conn, device, oid) ==
  IF ~conn THEN Thrown("walk", NotConnectedError)
  ELSE LET results == walkLoop(oid, oid, 0, <<>>) IN
    [op |-> "walk", success |-> TRUE, rootOid |-> oid,
     results |-> results, count |-> Len(results),
     device |-> DeviceEcho(device)]

(***************************************************************************)
(* The device store of the devices routes                                  *)
(*                                                                         *)
(*   devices - the module's array                                          *)
(*   nuuid   - how many ids uuidv4() has handed out                        *)
(* A timestamp is the clock's reading when it was taken; the module is     *)
(* loaded at 0.                                                            *)
(***************************************************************************)
null == [null |-> TRUE]

Time(ms) == [ms |-> ms]

initialDevices ==
  << [id |-> "1", name |-> "Router-01", ipAddress |-> "192.168.1.1",
      port |-> 161, community |-> "public", version |-> "2c",
      description |-> "Main router", status |-> "online",
      lastSeen |-> Time(0), createdAt |-> Time(0), updatedAt |-> Time(0)],
     [id |-> "2", name |-> "Switch-01", ipAddress |-> "192.168.1.2",
      port |-> 161, community |-> "public", version |-> "2c",
      description |-> "Core switch", status |-> "offline",
      lastSeen |-> null, createdAt |-> Time(0), updatedAt |-> Time(0)] >>

(***************************************************************************)
(* State after construction                                                *)
(***************************************************************************)
Init ==
  /\ connected = FALSE
  /\ trapListeners = <<>>
  /\ req = [op |-> "none"]
  /\ res = [op |-> "none"]
  /\ pc = "idle"
  /\ k = 0
  /\ len = 0
  /\ event = "none"
  /\ invoked = <<>>
  /\ caught = <<>>
  /\ snapshot = <<>>
  /\ touched = {}
  /\ traps = <<>>
  /\ now = 0
  /\ nseq = 0
  /\ done = [new |-> 0, ticks |-> 0, deletes |-> 0]
  /\ http = [status |-> "none"]
  /\ chain = [device |-> "", oids |-> <<>>]
  /\ walk = [pc |-> "idle"]
  /\ published = <<>>
  /\ devices = initialDevices
  /\ nuuid = 0

(***************************************************************************)
(* The service's operations                                                *)
(***************************************************************************)
connect ==
  /\ connected' = TRUE
  /\ req' = [op |-> "connect"]
  /\ res' = [op |-> "connect", returned |-> TRUE]
  /\ UNCHANGED <<dispatchVars, historyVars, otherVars, deviceVars>>

disconnect ==
  /\ connected' = FALSE
  /\ req' = [op |-> "disconnect"]
  /\ res' = [op |-> "disconnect", returned |-> TRUE]
  /\ UNCHANGED <<dispatchVars, historyVars, otherVars, deviceVars>>

\* a GET whose failure path also drops the connection
snmpGet_DisconnectOnFailure(device, oid) ==
  /\ req' = [op |-> "get", oid |-> oid]
  /\ res' = snmpGetReturn(connected, device, oid)
  /\ connected' = (connected /\ res'.success)
  /\ UNCHANGED <<dispatchVars, historyVars, otherVars, deviceVars>>

snmpGet(device, oid) ==
  /\ req' = [op |-> "get", oid |-> oid]
  /\ res' = snmpGetReturn(connected, device, oid)
  /\ UNCHANGED <<connected, dispatchVars, historyVars, otherVars, deviceVars>>

\* a SET whose failure path also drops the connection
snmpSet_DisconnectOnFailure(device, oid, value, type) ==
  /\ req' = [op |-> "set", oid |-> oid]
  /\ res' = snmpSetReturn(connected, device, oid, value, type)
  /\ connected' = (connected /\ res'.success)
  /\ UNCHANGED <<dispatchVars, historyVars, otherVars, deviceVars>>

snmpSet(device, oid, value, type) ==
  /\ req' = [op |-> "set", oid |-> oid]
  /\ res' = snmpSetReturn(connected, device, oid, value, type)
  /\ UNCHANGED <<connected, dispatchVars, historyVars, otherVars, deviceVars>>

snmpGetNext(device, oid) ==
  /\ req' = [op |-> "getnext", oid |-> oid]
  /\ res' = snmpGetNextReturn(connected, device, oid)
  /\ UNCHANGED <<connected, dispatchVars, historyVars, otherVars, deviceVars>>

snmpWalk(device, oid) ==
  /\ req' = [op |-> "walk", oid |-> oid]
  /\ res' = snmpWalkReturn(connected, device, oid)
  /\ UNCHANGED <<connected, dispatchVars, historyVars, otherVars, deviceVars>>

Next ==
  \/ connect
  \/ disconnect
  \/ \E device \in Devices, oid \in OidInputs : snmpGet(device, oid)
  \/ \E device \in Devices, oid \in OidInputs, value \in SetValues, type \in SetTypes :
       snmpSet(device, oid, value, type)
  \/ \E device \in Devices, oid \in OidInputs : snmpGetNext(device, oid)
  \/ \E device \in Devices, oid \in OidInputs : snmpWalk(device, oid)

Spec == Init /\ [][Next]_vars

(***************************************************************************)
(* Trap listeners: addTrapListener, removeTrapListener, simulateTrap       *)
(*                                                                         *)
(* simulateTrap runs trapListeners.forEach: the length is read once, the   *)
(* index k runs from 0 to that length, and an index is visited only if the *)
(* array still has it.  A callback is foreign code: when invoked it may    *)
(* return or throw, and before that may call addTrapListener or            *)
(* removeTrapListener.  pc = "raised" stands for an exception leaving      *)
(* simulateTrap.                                                           *)
(*   invoked  - the callbacks called by the current delivery, in order     *)
(*   caught   - the callbacks whose exception the delivery has logged      *)
(*   snapshot - trapListeners when the delivery began                      *)
(*   touched  - the callbacks added or removed while it ran                *)
(*   published - the traps the periodic timer has handed to simulateTrap   *)
(***************************************************************************)
Callbacks == {"cbA", "cbB"}

TrapData == {"trap1", "trap2"}

\* the longest listener list explored
MaxListeners == 3

\* what a callback does when invoked
Effects ==
  [act : {"none"}, target : {"-"}, throws : BOOLEAN] \cup
  [act : {"add", "remove"}, target : Callbacks, throws : BOOLEAN]

\* trapListeners.indexOf(callback), 0-based; -1 if absent
indexOf(list, callback) ==
  IF callback \in Range(list)
  THEN (CHOOSE i \in 1..Len(list) :
          /\ list[i] = callback
          /\ \A j \in 1..(i - 1) : list[j] # callback) - 1
  ELSE 0 - 1

\* list.splice(index, 1)
splice1(list, index) ==
  SubSeq(list, 1, index) \o SubSeq(list, index + 2, Len(list))

pushed(list, callback) == Append(list, callback)

removed(list, callback) ==
  LET index == indexOf(list, callback) IN
    IF index > 0 - 1 THEN splice1(list, index) ELSE list

Idle == pc \in {"idle", "returned"}

addTrapListener(callback) ==
  /\ Idle
  /\ Len(trapListeners) < MaxListeners
  /\ trapListeners' = pushed(trapListeners, callback)
  /\ UNCHANGED <<pc, k, len, event, invoked, caught, snapshot, touched>>
  /\ UNCHANGED <<snmpVars, historyVars, otherVars, deviceVars>>

removeTrapListener(callback) ==
  /\ Idle
  /\ trapListeners' = removed(trapListeners, callback)
  /\ UNCHANGED <<pc, k, len, event, invoked, caught, snapshot, touched>>
  /\ UNCHANGED <<snmpVars, historyVars, otherVars, deviceVars>>

\* simulateTrap is entered: forEach reads the length
simulateTrap(trapData) ==
  /\ Idle
  /\ pc' = "delivering"
  /\ event' = trapData
  /\ k' = 0
  /\ len' = Len(trapListeners)
  /\ invoked' = <<>>
  /\ caught' = <<>>
  /\ snapshot' = trapListeners
  /\ touched' = {}
  /\ UNCHANGED <<trapListeners, snmpVars, historyVars, otherVars, deviceVars>>

\* the listener list after a callback has run
afterCallback(list, effect) ==
  IF effect.act = "add" THEN pushed(list, effect.target)
  ELSE IF effect.act = "remove" THEN removed(list, effect.target)
  ELSE list

\* one round of forEach without the try/catch around the callback
forEachStep_NoCatch(effect) ==
  /\ pc = "delivering"
  /\ k < len
  /\ effect.act = "add" => Len(trapListeners) < MaxListeners
  /\ IF k < Len(trapListeners)
     THEN LET callback == trapListeners[k + 1] IN
          /\ invoked' = Append(invoked, [callback |-> callback, trapData |-> event])
          /\ trapListeners' = afterCallback(trapListeners, effect)
          /\ touched' = IF trapListeners' # trapListeners
                        THEN touched \cup {effect.target} ELSE touched
          /\ caught' = caught
          /\ pc' = IF effect.throws THEN "raised" ELSE pc
     ELSE /\ effect = [act |-> "none", target |-> "-", throws |-> FALSE]
          /\ UNCHANGED <<invoked, trapListeners, touched, caught, pc>>
  /\ k' = k + 1
  /\ UNCHANGED <<len, event, snapshot, snmpVars, historyVars, otherVars, deviceVars>>

\* one round of forEach: index k, if the array has it, gets its callback called
forEachStep(effect) ==
  /\ pc = "delivering"
  /\ k < len
  /\ effect.act = "add" => Len(trapListeners) < MaxListeners
  /\ IF k < Len(trapListeners)
     THEN LET callback == trapListeners[k + 1] IN
          /\ invoked' = Append(invoked, [callback |-> callback, trapData |-> event])
          /\ trapListeners' = afterCallback(trapListeners, effect)
          /\ touched' = IF trapListeners' # trapListeners
                        THEN touched \cup {effect.target} ELSE touched
          /\ caught' = IF effect.throws THEN Append(caught, callback) ELSE caught
          /\ pc' = pc
     ELSE /\ effect = [act |-> "none", target |-> "-", throws |-> FALSE]
          /\ UNCHANGED <<invoked, trapListeners, touched, caught, pc>>
  /\ k' = k + 1
  /\ UNCHANGED <<len, event, snapshot, snmpVars, historyVars, otherVars, deviceVars>>

\* forEach is done: simulateTrap returns
simulateTrapReturn ==
  /\ pc = "delivering"
  /\ ~(k < len)
  /\ pc' = "returned"
  /\ UNCHANGED <<trapListeners, k, len, event, invoked, caught, snapshot, touched>>
  /\ UNCHANGED <<snmpVars, historyVars, otherVars, deviceVars>>

\* a trapData without an id, or the one the manager's periodic timer
\* builds, whose id is Date.now().toString()
trapDataOf(hasId) ==
  [hasId |-> hasId,
   id |-> [ms |-> now, suffix |-> ""],
   deviceId |-> "1",
   deviceName |-> "Router-01",
   severity |-> "warning"]

\* traps the periodic timer publishes
MaxPublished == 1

\* the setInterval callback of connectToSNMPManager, when Math.random() is
\* above 0.7: it builds a trap with the id Date.now().toString() and hands
\* it to simulateTrap (the severity, one of three, is trapDataOf's)
periodicTrap ==
  /\ Idle
  /\ Len(published) < MaxPublished
  /\ published' = Append(published, trapDataOf(TRUE))
  /\ pc' = "delivering"
  /\ event' = trapDataOf(TRUE)
  /\ k' = 0
  /\ len' = Len(trapListeners)
  /\ invoked' = <<>>
  /\ caught' = <<>>
  /\ snapshot' = trapListeners
  /\ touched' = {}
  /\ UNCHANGED <<trapListeners, snmpVars, historyVars, http, chain, walk, deviceVars>>

NextDispatch ==
  \/ \E callback \in Callbacks : addTrapListener(callback)
  \/ \E callback \in Callbacks : removeTrapListener(callback)
  \/ \E trapData \in TrapData : simulateTrap(trapData)
  \/ periodicTrap
  \/ \E effect \in Effects : forEachStep(effect)
  \/ simulateTrapReturn

SpecDispatch == Init /\ [][NextDispatch]_vars

\* one round of forEach whose callback does not return: the call stays on
\* the stack, and on the one thread nothing else runs
forEachBlocked ==
  /\ pc = "delivering"
  /\ k < len
  /\ k < Len(trapListeners)
  /\ invoked' = Append(invoked, [callback |-> trapListeners[k + 1],
                                 trapData |-> event])
  /\ pc' = "blocked"
  /\ UNCHANGED <<trapListeners, k, len, event, caught, snapshot, touched>>
  /\ UNCHANGED <<snmpVars, historyVars, otherVars, deviceVars>>

\* callbacks that return or throw and leave the list alone
PlainEffects == [act : {"none"}, target : {"-"}, throws : BOOLEAN]

NextBlocking ==
  \/ \E callback \in Callbacks : addTrapListener(callback)
  \/ \E callback \in Callbacks : removeTrapListener(callback)
  \/ \E trapData \in TrapData : simulateTrap(trapData)
  \/ \E effect \in PlainEffects : forEachStep(effect)
  \/ forEachBlocked
  \/ simulateTrapReturn

\* a call that is running goes on: forEach takes its next round when the
\* callback has returned, and simulateTrap returns when forEach is done
SpecBlocking ==
  /\ Init
  /\ [][NextBlocking]_vars
  /\ WF_vars(\E effect \in PlainEffects : forEachStep(effect))
  /\ WF_vars(simulateTrapReturn)

(***************************************************************************)
(* Trap history (routes/traps.js)                                          *)
(*                                                                         *)
(*   traps - the module's array, newest first                              *)
(*   now   - the clock read by Date.now() and new Date(), in milliseconds  *)
(*   nseq  - how many traps have been inserted so far; each trap carries   *)
(*           its arrival number n, which the code does not store           *)
(*   done  - how many inserts, clock ticks and single deletions the run    *)
(*           has made, to bound it                                         *)
(* Of a trap the model keeps id, deviceId, deviceName, severity and        *)
(* timestamp; oid, message and variables are carried along untouched.      *)
(***************************************************************************)
maxTraps == 1000

\* inserts, clock ticks and single deletions explored after the start
MaxNew == 2
MaxTicks == 1
MaxDeletes == 1

RandomSuffixes == {"r1", "r2"}

\* traps.unshift(trap)
unshift(list, trap) == <<trap>> \o list

\* a slice that keeps the last 1000 entries of the array instead of the first
keepNewest_Tail(list) ==
  IF Len(list) > maxTraps
  THEN SubSeq(list, Len(list) - maxTraps + 1, Len(list))
  ELSE list

\* traps.slice(0, 1000)
keepNewest(list) ==
  SubSeq(list, 1, IF Len(list) < maxTraps THEN Len(list) ELSE maxTraps)

\* the trap POST /simulate builds; a body without deviceId gets '1'
simulatedTrap(body) ==
  [id |-> [ms |-> now, suffix |-> ""],
   deviceId |-> IF body.deviceId = "" THEN "1" ELSE body.deviceId,
   deviceName |-> "Test Device",
   severity |-> body.severity,
   timestamp |-> now,
   n |-> nseq + 1]

\* router.post('/simulate')
postSimulate(body) ==
  /\ done.new < MaxNew
  /\ traps' = keepNewest(unshift(traps, simulatedTrap(body)))
  /\ nseq' = nseq + 1
  /\ done' = [done EXCEPT !.new = @ + 1]
  /\ UNCHANGED <<now, snmpVars, dispatchVars, otherVars, deviceVars>>

\* addTrap(trapData), exported for the SNMP manager: the generated id comes
\* first, the fields of trapData (its id too, if it has one) override it,
\* and the timestamp is written last
addTrap(trapData, suffix) ==
  /\ done.new < MaxNew
  /\ traps' = keepNewest(unshift(traps,
                [id |-> IF trapData.hasId THEN trapData.id
                        ELSE [ms |-> now, suffix |-> suffix],
                 deviceId |-> trapData.deviceId,
                 deviceName |-> trapData.deviceName,
                 severity |-> trapData.severity,
                 timestamp |-> now,
                 n |-> nseq + 1]))
  /\ nseq' = nseq + 1
  /\ done' = [done EXCEPT !.new = @ + 1]
  /\ UNCHANGED <<now, snmpVars, dispatchVars, otherVars, deviceVars>>

\* router.delete('/'): clear all traps
deleteAll ==
  /\ traps' = <<>>
  /\ UNCHANGED <<now, nseq, done, snmpVars, dispatchVars, otherVars, deviceVars>>

\* traps.findIndex(t => t.id === id), 0-based; -1 if absent
findIndex(list, id) ==
  IF \E i \in 1..Len(list) : list[i].id = id
  THEN (CHOOSE i \in 1..Len(list) :
          /\ list[i].id = id
          /\ \A j \in 1..(i - 1) : list[j].id # id) - 1
  ELSE 0 - 1

\* router.delete('/:id'): 404 for an unknown id, else splice the first match
deleteOne(id) ==
  /\ done.deletes < MaxDeletes
  /\ LET trapIndex == findIndex(traps, id) IN
       IF trapIndex = 0 - 1
       THEN UNCHANGED <<traps, done>>
       ELSE /\ traps' = splice1(traps, trapIndex)
            /\ done' = [done EXCEPT !.deletes = @ + 1]
  /\ UNCHANGED <<now, nseq, snmpVars, dispatchVars, otherVars, deviceVars>>

\* a millisecond passes
tick ==
  /\ done.ticks < MaxTicks
  /\ now' = now + 1
  /\ done' = [done EXCEPT !.ticks = @ + 1]
  /\ UNCHANGED <<traps, nseq, snmpVars, dispatchVars, otherVars, deviceVars>>

\* the ids a DELETE /:id is tried with: the newest, the second and the
\* oldest trap's, and one no trap has
DeletePicks == {"newest", "second", "oldest", "unknown"}

PickedId(pick) ==
  LET i == CASE pick = "newest" -> 1
             [] pick = "second" -> 2
             [] pick = "oldest" -> Len(traps)
             [] OTHER -> 0
  IN  IF i \in DOMAIN traps THEN traps[i].id ELSE [ms |-> 0, suffix |-> ""]

\* request bodies of POST /simulate: an empty one (severity defaults to
\* 'info'), and one naming a device and a severity
SimulateBodies ==
  { [deviceId |-> "", severity |-> "info"],
    [deviceId |-> "2", severity |-> "error"] }

NextHistory ==
  \/ \E body \in SimulateBodies : postSimulate(body)
  \/ \E hasId \in BOOLEAN, suffix \in RandomSuffixes :
       addTrap(trapDataOf(hasId), suffix)
  \/ deleteAll
  \/ \E pick \in DeletePicks : deleteOne(PickedId(pick))
  \/ tick

\* the history after m POST /simulate requests with an empty body, one per
\* millisecond
History(m) ==
  [i \in 1..m |->
     [id |-> [ms |-> m + 1 - i, suffix |-> ""],
      deviceId |-> "1",
      deviceName |-> "Test Device",
      severity |-> "info",
      timestamp |-> m + 1 - i,
      n |-> m + 1 - i]]

\* the server as constructed, or one request short of a full history
InitHistory ==
  /\ connected = FALSE
  /\ trapListeners = <<>>
  /\ req = [op |-> "none"]
  /\ res = [op |-> "none"]
  /\ pc = "idle"
  /\ k = 0
  /\ len = 0
  /\ event = "none"
  /\ invoked = <<>>
  /\ caught = <<>>
  /\ snapshot = <<>>
  /\ touched = {}
  /\ done = [new |-> 0, ticks |-> 0, deletes |-> 0]
  /\ http = [status |-> "none"]
  /\ chain = [device |-> "", oids |-> <<>>]
  /\ walk = [pc |-> "idle"]
  /\ published = <<>>
  /\ devices = initialDevices
  /\ nuuid = 0
  /\ \E m \in {0, maxTraps - 1} :
       /\ traps = History(m)
       /\ now = m
       /\ nseq = m

SpecHistory == InitHistory /\ [][NextHistory]_vars

(***************************************************************************)
(* GET /api/traps (routes/traps.js)                                        *)
(*                                                                         *)
(* A query parameter is a text; the empty text stands for a parameter that *)
(* is not given.  limit and offset are given as an optional minus sign and *)
(* decimal digits.                                                         *)
(***************************************************************************)
\* parseInt(text) of an optional minus sign followed by decimal digits
parseInt(text) ==
  IF text[1] = "-" THEN 0 - Number(Tail(text)) ELSE Number(text)

\* list.slice(start, end): a negative index counts from the end of the
\* list, and both ends are clamped to the list
slice(list, start, end) ==
  LET n == Len(list)
      clamp(i) == IF i < 0 THEN (IF n + i < 0 THEN 0 ELSE n + i)
                  ELSE (IF i > n THEN n ELSE i)
  IN  SubSeq(list, clamp(start) + 1, clamp(end))

\* the two filters of the handler; an empty parameter does not filter
filteredTraps(list, query) ==
  LET bySeverity == IF query.severity # ""
                    THEN SelectSeq(list, LAMBDA trap : trap.severity = query.severity)
                    ELSE list
  IN  IF query.deviceId # ""
      THEN SelectSeq(bySeverity, LAMBDA trap : trap.deviceId = query.deviceId)
      ELSE bySeverity

\* router.get('/')
getTraps(query) ==
  /\ LET limit == IF query.limit = <<>> THEN 100 ELSE parseInt(query.limit)
         offset == IF query.offset = <<>> THEN 0 ELSE parseInt(query.offset)
         filtered == filteredTraps(traps, query)
         startIndex == offset
         endIndex == startIndex + limit
     IN  http' = [route |-> "GET /api/traps", request |-> query, status |-> "200",
                  body |-> [traps |-> slice(filtered, startIndex, endIndex),
                            total |-> Len(filtered),
                            limit |-> limit,
                            offset |-> offset]]
  /\ UNCHANGED <<snmpVars, dispatchVars, historyVars, chain, walk, published, deviceVars>>

Queries ==
  [limit : {<<>>, <<"-", "1">>, <<"1">>, <<"2">>},
   offset : {<<>>, <<"-", "1">>, <<"1">>},
   severity : {"", "error"},
   deviceId : {"", "2"}]

NextQuery ==
  \/ \E body \in SimulateBodies : postSimulate(body)
  \/ \E query \in Queries : getTraps(query)

SpecQuery == Init /\ [][NextQuery]_vars

(***************************************************************************)
(* The routes of /api/snmp (routes/snmp.js)                                *)
(*                                                                         *)
(* A request body has string fields; a missing field is the empty string,  *)
(* which Joi.string().required() rejects as well.  http records the        *)
(* request and the response sent; of a 400 response the details array is   *)
(* left out.                                                               *)
(***************************************************************************)
\* getDeviceById: devices.find(d => d.id === deviceId)
getDeviceById(deviceId) ==
  IF \E d \in Devices : d.id = deviceId
  THEN CHOOSE d \in Devices : d.id = deviceId
  ELSE undefined

\* a schema without the pattern on oid
snmpOperationSchema_NoPattern(body) ==
  /\ body.deviceId # ""
  /\ body.oid # <<>>

\* snmpOperationSchema.validate(body) reports no error
snmpOperationSchema(body) ==
  /\ body.deviceId # ""
  /\ WellFormed(body.oid)

SchemaTypes == {"string", "integer", "octet", "oid"}

\* snmpSetSchema.validate(body) reports no error
snmpSetSchema(body) ==
  /\ snmpOperationSchema(body)
  /\ body.value # ""
  /\ body.type \in SchemaTypes

ValidationError == [error |-> "Validation error"]
DeviceNotFound == [error |-> "Device not found"]

GetFailed == "SNMP GET operation failed"
SetFailed == "SNMP SET operation failed"
GetNextFailed == "SNMP GETNEXT operation failed"
WalkFailed == "SNMP WALK operation failed"

\* res.json(result), or the catch block's res.status(500).json(...)
routeResponse(label, ret) ==
  IF ret.success
  THEN [status |-> "200", body |-> ret]
  ELSE [status |-> "500", body |-> [error |-> label, message |-> ret.error]]

Responded(route, body, response) ==
  [route |-> route, request |-> body,
   status |-> response.status, body |-> response.body]

\* router.post('/get')
postGet(body) ==
  /\ IF ~snmpOperationSchema(body)
     THEN /\ http' = Responded("/get", body, [status |-> "400", body |-> ValidationError])
          /\ UNCHANGED <<req, res>>
     ELSE IF getDeviceById(body.deviceId) = undefined
     THEN /\ http' = Responded("/get", body, [status |-> "404", body |-> DeviceNotFound])
          /\ UNCHANGED <<req, res>>
     ELSE /\ req' = [op |-> "get", oid |-> body.oid]
          /\ res' = snmpGetReturn(connected, getDeviceById(body.deviceId), body.oid)
          /\ http' = Responded("/get", body, routeResponse(GetFailed, res'))
  /\ UNCHANGED <<connected, dispatchVars, historyVars, chain, walk, published, deviceVars>>

\* router.post('/set')
postSet(body) ==
  /\ IF ~snmpSetSchema(body)
     THEN /\ http' = Responded("/set", body, [status |-> "400", body |-> ValidationError])
          /\ UNCHANGED <<req, res>>
     ELSE IF getDeviceById(body.deviceId) = undefined
     THEN /\ http' = Responded("/set", body, [status |-> "404", body |-> DeviceNotFound])
          /\ UNCHANGED <<req, res>>
     ELSE /\ req' = [op |-> "set", oid |-> body.oid]
          /\ res' = snmpSetReturn(connected, getDeviceById(body.deviceId),
                                  body.oid, body.value, body.type)
          /\ http' = Responded("/set", body, routeResponse(SetFailed, res'))
  /\ UNCHANGED <<connected, dispatchVars, historyVars, chain, walk, published, deviceVars>>

\* router.post('/getnext')
postGetNext(body) ==
  /\ IF ~snmpOperationSchema(body)
     THEN /\ http' = Responded("/getnext", body, [status |-> "400", body |-> ValidationError])
          /\ UNCHANGED <<req, res>>
     ELSE IF getDeviceById(body.deviceId) = undefined
     THEN /\ http' = Responded("/getnext", body, [status |-> "404", body |-> DeviceNotFound])
          /\ UNCHANGED <<req, res>>
     ELSE /\ req' = [op |-> "getnext", oid |-> body.oid]
          /\ res' = snmpGetNextReturn(connected, getDeviceById(body.deviceId), body.oid)
          /\ http' = Responded("/getnext", body, routeResponse(GetNextFailed, res'))
  /\ UNCHANGED <<connected, dispatchVars, historyVars, chain, walk, published, deviceVars>>

\* router.post('/walk')
postWalk(body) ==
  /\ IF ~snmpOperationSchema(body)
     THEN /\ http' = Responded("/walk", body, [status |-> "400", body |-> ValidationError])
          /\ UNCHANGED <<req, res>>
     ELSE IF getDeviceById(body.deviceId) = undefined
     THEN /\ http' = Responded("/walk", body, [status |-> "404", body |-> DeviceNotFound])
          /\ UNCHANGED <<req, res>>
     ELSE /\ req' = [op |-> "walk", oid |-> body.oid]
          /\ res' = snmpWalkReturn(connected, getDeviceById(body.deviceId), body.oid)
          /\ http' = Responded("/walk", body, routeResponse(WalkFailed, res'))
  /\ UNCHANGED <<connected, dispatchVars, historyVars, chain, walk, published, deviceVars>>

\* oid texts sent to the routes: sysDescr, sysContact, ifDescr.1, the
\* system group, and texts the pattern does not match
RouteOids ==
  { Oid(<<1, 3, 6, 1, 2, 1, 1, 1, 0>>), Oid(<<1, 3, 6, 1, 2, 1, 1, 4, 0>>),
    Oid(<<1, 3, 6, 1, 2, 1, 2, 2, 1, 2, 1>>), Oid(<<1, 3, 6, 1, 2, 1, 1>>) }

MalformedOids ==
  { <<>>,
    <<"1", ".", ".", "3">>,
    <<".", "1", ".", "3">>,
    <<"1", ".", "3", ".">>,
    <<"1", ".", "3", ".", "x">>,
    <<"-", "1">>,
    Oid(<<1, 3, 6, 1, 2, 1, 1, 1, 0>>) \o <<" ">>,
    Oid(<<1, 3, 6, 1, 2, 1, 1, 1>>) \o <<",", "0">> }

\* device ids sent: a known one, an unknown one, none
RouteDeviceIds == {"1", "3", ""}

RouteBodies == [deviceId : RouteDeviceIds, oid : RouteOids \cup MalformedOids]

RouteSetBodies ==
  [deviceId : {"1"}, oid : RouteOids \cup MalformedOids,
   value : {"42"}, type : {"integer", "float"}]

NextRoutes ==
  \/ connect
  \/ disconnect
  \/ \E body \in RouteBodies : postGet(body)
  \/ \E body \in RouteSetBodies : postSet(body)
  \/ \E body \in RouteBodies : postGetNext(body)
  \/ \E body \in RouteBodies : postWalk(body)

SpecRoutes == Init /\ [][NextRoutes]_vars

(***************************************************************************)
(* A caller that iterates GETNEXT: it asks for an OID and, as long as the  *)
(* answer is a success, asks again for the nextOid of the answer.          *)
(*   chain - the device asked, and the OID first asked for followed by the *)
(*           nextOid of every answer                                       *)
(***************************************************************************)
\* the longest chain followed
MaxChain == 12

\* snmpGetNext on a connected manager, tabulated for the OIDs tried
getNextAnswers ==
  [device \in Devices, oid \in OidInputs |-> snmpGetNextReturn(TRUE, device, oid)]

\* the first GETNEXT of the iteration
chainFirst(device, oid) ==
  /\ connected
  /\ req.op # "getnext"
  /\ req' = [op |-> "getnext", oid |-> oid]
  /\ res' = getNextAnswers[device, oid]
  /\ chain' = [device |-> device.id,
               oids |-> IF res'.success THEN <<oid, res'.nextOid>> ELSE <<oid>>]
  /\ UNCHANGED <<connected, dispatchVars, historyVars, http, walk, published, deviceVars>>

\* the answer was a success: GETNEXT, for the same device, of its nextOid
chainNext(device, oid) ==
  /\ connected
  /\ req.op = "getnext"
  /\ res.success
  /\ device.id = chain.device
  /\ oid = res.nextOid
  /\ Len(chain.oids) < MaxChain
  /\ req' = [op |-> "getnext", oid |-> oid]
  /\ res' = getNextAnswers[device, oid]
  /\ chain' = IF res'.success
               THEN [chain EXCEPT !.oids = Append(@, res'.nextOid)]
               ELSE chain
  /\ UNCHANGED <<connected, dispatchVars, historyVars, http, walk, published, deviceVars>>

NextChain ==
  \/ \E device \in Devices, oid \in OidInputs : chainFirst(device, oid)
  \/ \E device \in Devices, oid \in StoredOids : chainNext(device, oid)

\* the manager after connect(), as connectToSNMPManager leaves it
InitConnected ==
  /\ connected = TRUE
  /\ trapListeners = <<>>
  /\ req = [op |-> "connect"]
  /\ res = [op |-> "connect", returned |-> TRUE]
  /\ pc = "idle"
  /\ k = 0
  /\ len = 0
  /\ event = "none"
  /\ invoked = <<>>
  /\ caught = <<>>
  /\ snapshot = <<>>
  /\ touched = {}
  /\ traps = <<>>
  /\ now = 0
  /\ nseq = 0
  /\ done = [new |-> 0, ticks |-> 0, deletes |-> 0]
  /\ http = [status |-> "none"]
  /\ chain = [device |-> "", oids |-> <<>>]
  /\ walk = [pc |-> "idle"]
  /\ published = <<>>
  /\ devices = initialDevices
  /\ nuuid = 0

\* the caller keeps asking until an answer is a failure
SpecChain == InitConnected /\ [][NextChain]_vars /\ WF_vars(NextChain)

(***************************************************************************)
(* snmpWalk step by step: the while loop of lines 164-186, one test of the *)
(* loop condition and one pass through the body at a time.  The method     *)
(* does not await inside the loop, so nothing else runs in between.        *)
(*   walk - where the call stands (idle, looping, built, returned, thrown) *)
(*          and its locals: oid, currentOid, walkCount, results            *)
(***************************************************************************)
\* getNextOid, tabulated for the OIDs tried
nextOidOf == [oid \in OidInputs |-> getNextOid(oid)]

\* snmpWalk(device, oid) is called
walkEnter(device, oid) ==
  /\ walk.pc \in {"idle", "returned", "thrown"}
  /\ IF ~connected
     THEN /\ walk' = [pc |-> "thrown"]
          /\ req' = [op |-> "walk", oid |-> oid]
          /\ res' = Thrown("walk", NotConnectedError)
     ELSE /\ walk' = [pc |-> "looping", device |-> device, oid |-> oid,
                      currentOid |-> oid, walkCount |-> 0, results |-> <<>>]
          /\ UNCHANGED <<req, res>>
  /\ UNCHANGED <<connected, dispatchVars, historyVars, http, chain, published, deviceVars>>

\* a loop whose subtree test goes on to the next round instead of leaving
walkIteration_ContinueOnLeave ==
  /\ walk.pc = "looping"
  /\ IF ~(walk.walkCount < maxWalkResults)
     THEN walk' = [walk EXCEPT !.pc = "built"]
     ELSE LET nextOid == nextOidOf[walk.currentOid] IN
       IF ~startsWith(nextOid, walk.oid)
       THEN walk' = walk
       ELSE LET data == getMockSnmpData(nextOid) IN
         IF data = undefined
         THEN walk' = [walk EXCEPT !.pc = "built"]
         ELSE walk' = [walk EXCEPT
                         !.results = Append(@, [oid |-> nextOid, value |-> data.value,
                                                type |-> data.type, name |-> data.name]),
                         !.currentOid = nextOid,
                         !.walkCount = @ + 1]
  /\ UNCHANGED <<snmpVars, dispatchVars, historyVars, http, chain, published, deviceVars>>

\* the loop condition is tested and, if it holds, the body runs once
walkIteration ==
  /\ walk.pc = "looping"
  /\ IF ~(walk.walkCount < maxWalkResults)
     THEN walk' = [walk EXCEPT !.pc = "built"]
     ELSE LET nextOid == nextOidOf[walk.currentOid] IN
       IF ~startsWith(nextOid, walk.oid)
       THEN walk' = [walk EXCEPT !.pc = "built"]
       ELSE LET data == getMockSnmpData(nextOid) IN
         IF data = undefined
         THEN walk' = [walk EXCEPT !.pc = "built"]
         ELSE walk' = [walk EXCEPT
                         !.results = Append(@, [oid |-> nextOid, value |-> data.value,
                                                type |-> data.type, name |-> data.name]),
                         !.currentOid = nextOid,
                         !.walkCount = @ + 1]
  /\ UNCHANGED <<snmpVars, dispatchVars, historyVars, http, chain, published, deviceVars>>

\* the result object is built and returned
walkReturn ==
  /\ walk.pc = "built"
  /\ walk' = [walk EXCEPT !.pc = "returned"]
  /\ req' = [op |-> "walk", oid |-> walk.oid]
  /\ res' = [op |-> "walk", success |-> TRUE, rootOid |-> walk.oid,
             results |-> walk.results, count |-> Len(walk.results),
             device |-> DeviceEcho(walk.device)]
  /\ UNCHANGED <<connected, dispatchVars, historyVars, http, chain, published, deviceVars>>

NextWalk ==
  \/ \E device \in Devices, oid \in OidInputs : walkEnter(device, oid)
  \/ walkIteration
  \/ walkReturn

\* a call that has been entered runs on to its end
SpecWalk ==
  /\ InitConnected
  /\ [][NextWalk]_vars
  /\ WF_vars(walkIteration)
  /\ WF_vars(walkReturn)

(***************************************************************************)
(* The devices routes: POST /, PUT /:id, DELETE /:id, POST /:id/test       *)
(*                                                                         *)
(* A request body is the record of the fields it names.  The object        *)
(* spread {...a, ...b} is b @@ a: a later field wins.                      *)
(***************************************************************************)
MaxCreates == 1

\* the ids uuidv4() hands out, in order
Uuids == <<"uuid-a", "uuid-b", "uuid-c">>

uuidv4(n) == Uuids[n + 1]

\* texts Joi.string().ip() accepts among the ones sent
IpTexts == {"192.168.1.1", "192.168.1.2", "10.0.0.3"}

SchemaKeys == {"name", "ipAddress", "port", "community", "version", "description"}

\* the .default(...) of the schema's keys
schemaDefaults ==
  [port |-> 161, community |-> "public", version |-> "2c", description |-> ""]

\* every key of the body is a key of the schema and passes its rule
keysValid(body) ==
  /\ DOMAIN body \subseteq SchemaKeys
  /\ "name" \in DOMAIN body => body.name # ""
  /\ "ipAddress" \in DOMAIN body => body.ipAddress \in IpTexts
  /\ "port" \in DOMAIN body => body.port \in 0..65535
  /\ "community" \in DOMAIN body => body.community # ""
  /\ "version" \in DOMAIN body => body.version \in {"1", "2c", "3"}

\* deviceSchema.validate(body): { error, value }, value with the defaults
deviceSchema(body) ==
  IF keysValid(body) /\ {"name", "ipAddress"} \subseteq DOMAIN body
  THEN [error |-> FALSE, value |-> body @@ schemaDefaults]
  ELSE [error |-> TRUE]

\* an update schema whose keys have no default
updateDeviceSchema_NoDefaults(body) ==
  IF keysValid(body)
  THEN [error |-> FALSE, value |-> body]
  ELSE [error |-> TRUE]

\* deviceSchema.fork(['name', 'ipAddress'], s => s.optional()): the two keys
\* may be absent, the other keys' rules and defaults are the same
updateDeviceSchema(body) ==
  IF keysValid(body)
  THEN [error |-> FALSE, value |-> body @@ schemaDefaults]
  ELSE [error |-> TRUE]

IpConflict == [error |-> "Device with this IP address already exists"]

\* devices.findIndex(d => d.id === id), 0-based; -1 if absent
findDevice(list, id) ==
  IF \E i \in DOMAIN list : list[i].id = id
  THEN (CHOOSE i \in DOMAIN list :
          /\ list[i].id = id
          /\ \A j \in 1..(i - 1) : list[j].id # id) - 1
  ELSE 0 - 1

\* devices[index], index 0-based
deviceAt(list, index) == list[index + 1]

\* devices[index] = device
replaced(list, index, device) ==
  [i \in DOMAIN list |-> IF i = index + 1 THEN device ELSE list[i]]

\* { id: uuidv4(), ...value, status: 'offline', lastSeen: null, createdAt, updatedAt }
newDevice(id, value, at) ==
  [status |-> "offline", lastSeen |-> null,
   createdAt |-> Time(at), updatedAt |-> Time(at)] @@ value @@ [id |-> id]

\* { ...devices[deviceIndex], ...value, updatedAt }
updatedDevice(device, value, at) ==
  [updatedAt |-> Time(at)] @@ value @@ device

\* a connection test that sets lastSeen whatever it finds
testedDevice_AlwaysSeen(device, isOnline, at) ==
  [status |-> IF isOnline THEN "online" ELSE "offline",
   lastSeen |-> Time(at),
   updatedAt |-> Time(at)] @@ device

\* { ...device, status, lastSeen, updatedAt } of the connection test
testedDevice(device, isOnline, at) ==
  [status |-> IF isOnline THEN "online" ELSE "offline",
   lastSeen |-> IF isOnline THEN Time(at) ELSE device.lastSeen,
   updatedAt |-> Time(at)] @@ device

\* a PUT that does not look for the address among the other devices
ipTaken_Unchecked(list, id, value, index) == FALSE

\* the IP check of PUT: only when the body names an address other than the
\* device's own
ipTaken(list, id, value, index) ==
  /\ value.ipAddress # deviceAt(list, index).ipAddress
  /\ \E i \in DOMAIN list :
       list[i].ipAddress = value.ipAddress /\ list[i].id # id

\* router.post('/')
postDevice(body) ==
  /\ IF deviceSchema(body).error
     THEN /\ http' = Responded("POST /api/devices", body,
                               [status |-> "400", body |-> ValidationError])
          /\ UNCHANGED deviceVars
     ELSE IF \E i \in DOMAIN devices :
               devices[i].ipAddress = deviceSchema(body).value.ipAddress
     THEN /\ http' = Responded("POST /api/devices", body,
                               [status |-> "409", body |-> IpConflict])
          /\ UNCHANGED deviceVars
     ELSE /\ nuuid < MaxCreates
          /\ nuuid' = nuuid + 1
          /\ devices' = Append(devices,
                               newDevice(uuidv4(nuuid), deviceSchema(body).value, now))
          /\ http' = Responded("POST /api/devices", body,
                               [status |-> "201", body |-> devices'[Len(devices')]])
  /\ UNCHANGED <<snmpVars, dispatchVars, historyVars, chain, walk, published>>

\* router.put('/:id')
putDevice(id, body) ==
  /\ IF updateDeviceSchema(body).error
     THEN /\ http' = Responded("PUT /api/devices/:id", [id |-> id, body |-> body],
                               [status |-> "400", body |-> ValidationError])
          /\ UNCHANGED devices
     ELSE IF findDevice(devices, id) = 0 - 1
     THEN /\ http' = Responded("PUT /api/devices/:id", [id |-> id, body |-> body],
                               [status |-> "404", body |-> DeviceNotFound])
          /\ UNCHANGED devices
     ELSE IF /\ "ipAddress" \in DOMAIN updateDeviceSchema(body).value
             /\ ipTaken(devices, id, updateDeviceSchema(body).value,
                        findDevice(devices, id))
     THEN /\ http' = Responded("PUT /api/devices/:id", [id |-> id, body |-> body],
                               [status |-> "409", body |-> IpConflict])
          /\ UNCHANGED devices
     ELSE /\ devices' = replaced(devices, findDevice(devices, id),
                                 updatedDevice(deviceAt(devices, findDevice(devices, id)),
                                               updateDeviceSchema(body).value, now))
          /\ http' = Responded("PUT /api/devices/:id", [id |-> id, body |-> body],
                               [status |-> "200",
                                body |-> deviceAt(devices', findDevice(devices, id))])
  /\ UNCHANGED <<snmpVars, dispatchVars, historyVars, chain, walk, published, nuuid>>

\* router.delete('/:id')
deleteDevice(id) ==
  /\ IF findDevice(devices, id) = 0 - 1
     THEN /\ http' = Responded("DELETE /api/devices/:id", [id |-> id],
                               [status |-> "404", body |-> DeviceNotFound])
          /\ UNCHANGED devices
     ELSE /\ devices' = splice1(devices, findDevice(devices, id))
          /\ http' = Responded("DELETE /api/devices/:id", [id |-> id],
                               [status |-> "200",
                                body |-> [message |-> "Device deleted successfully",
                                          device |-> deviceAt(devices, findDevice(devices, id))]])
  /\ UNCHANGED <<snmpVars, dispatchVars, historyVars, chain, walk, published, nuuid>>

\* router.post('/:id/test'); isOnline is Math.random() > 0.3
testDevice(id, isOnline) ==
  /\ IF findDevice(devices, id) = 0 - 1
     THEN /\ http' = Responded("POST /api/devices/:id/test", [id |-> id],
                               [status |-> "404", body |-> DeviceNotFound])
          /\ UNCHANGED devices
     ELSE /\ devices' = replaced(devices, findDevice(devices, id),
                                 testedDevice(deviceAt(devices, findDevice(devices, id)),
                                              isOnline, now))
          /\ http' = Responded("POST /api/devices/:id/test",
                               [id |-> id, isOnline |-> isOnline],
                               [status |-> "200",
                                body |-> [success |-> TRUE,
                                          status |-> deviceAt(devices', findDevice(devices, id)).status,
                                          message |-> IF isOnline
                                                      THEN "Device is reachable"
                                                      ELSE "Device is not reachable"]])
  /\ UNCHANGED <<snmpVars, dispatchVars, historyVars, chain, walk, published, nuuid>>

\* ids named in the path: an initial device, a created one, none
UpdateIds == {"1", "2", "none"}
DeleteIds == {"1", "none"}
TestIds == {"2", "uuid-a", "none"}

\* bodies of POST: a new address with a port of its own, an address in use,
\* a text that is no address, no name
CreateBodies ==
  { [name |-> "Edge-01", ipAddress |-> "10.0.0.3", port |-> 1161,
     description |-> "Lab edge"],
    [name |-> "Copy-01", ipAddress |-> "192.168.1.1"],
    [name |-> "Bad-01", ipAddress |-> "not-an-address"],
    [ipAddress |-> "10.0.0.3"] }

\* bodies of PUT: a name alone, an address in use, a free address, a key
\* the schema does not have
UpdateBodies ==
  { [name |-> "Renamed"],
    [ipAddress |-> "192.168.1.2"],
    [ipAddress |-> "10.0.0.3"],
    [status |-> "online"] }

\* the operations routes on the same server: one readable oid
OperationBodies ==
  [deviceId : {"1", "2", "uuid-a"}, oid : {Oid(<<1, 3, 6, 1, 2, 1, 1, 1, 0>>)}]

NextDevices ==
  \/ \E body \in CreateBodies : postDevice(body)
  \/ \E id \in UpdateIds, body \in UpdateBodies : putDevice(id, body)
  \/ \E id \in DeleteIds : deleteDevice(id)
  \/ \E id \in TestIds, isOnline \in BOOLEAN : testDevice(id, isOnline)
  \/ \E body \in OperationBodies : postGet(body)

\* the server a millisecond after it was loaded and connected
InitDevices ==
  /\ connected = TRUE
  /\ trapListeners = <<>>
  /\ req = [op |-> "connect"]
  /\ res = [op |-> "connect", returned |-> TRUE]
  /\ pc = "idle"
  /\ k = 0
  /\ len = 0
  /\ event = "none"
  /\ invoked = <<>>
  /\ caught = <<>>
  /\ snapshot = <<>>
  /\ touched = {}
  /\ traps = <<>>
  /\ now = 1
  /\ nseq = 0
  /\ done = [new |-> 0, ticks |-> 0, deletes |-> 0]
  /\ http = [status |-> "none"]
  /\ chain = [device |-> "", oids |-> <<>>]
  /\ walk = [pc |-> "idle"]
  /\ published = <<>>
  /\ devices = initialDevices
  /\ nuuid = 0

SpecDevices == InitDevices /\ [][NextDevices]_vars

(***************************************************************************)
(* Properties of the SNMP operations                                       *)
(***************************************************************************)
\* the last call was an SNMP operation made while the manager was connected
Served ==
  /\ req.op \in {"get", "set", "getnext", "walk"}
  /\ (res.success \/ res.error # NotConnectedError)

HasSuccessor(x) == \E s \in StoredArcs : OidLess(x, s)

\* the smallest stored OID strictly greater than x
Successor(x) ==
  CHOOSE s \in StoredArcs :
    /\ OidLess(x, s)
    /\ \A t \in StoredArcs : OidLess(x, t) => (t = s \/ OidLess(s, t))

SubtreeLeaves(root) == {s \in StoredArcs : IsProperPrefixOf(root, s)}

RECURSIVE SortOids(_)
SortOids(S) ==
  IF S = {} THEN <<>>
  ELSE LET m == CHOOSE m \in S : \A t \in S : t = m \/ OidLess(m, t)
       IN  <<m>> \o SortOids(S \ {m})

FirstN(seq, n) == SubSeq(seq, 1, IF Len(seq) < n THEN Len(seq) ELSE n)

ResultArcs(results) == [i \in 1..Len(results) |-> Arcs(results[i].oid)]

\* C1: GETNEXT on a connected manager answers, for every well-formed OID
\* that has a stored OID after it in arc-by-arc order, with the smallest
\* such stored OID and that entry's type and value.
C1_GetNextReturnsSuccessor ==
  (req.op = "getnext" /\ Served /\ HasSuccessor(Arcs(req.oid))) =>
    LET n == Oid(Successor(Arcs(req.oid))) IN
      /\ res.success
      /\ res.nextOid = n
      /\ res.value = mockData[n].value
      /\ res.type = mockData[n].type

\* C2: WALK of a root on a connected manager lists, in increasing OID
\* order, every stored leaf of which the root is a proper arc-wise prefix
\* (up to the cap on results).
C2_WalkReturnsSubtree ==
  (req.op = "walk" /\ Served) =>
    ResultArcs(res.results) =
      FirstN(SortOids(SubtreeLeaves(Arcs(req.oid))), maxWalkResults)

\* C3: the list a WALK returns never holds the root itself nor an OID of
\* which the root is not an arc-wise prefix.
C3_WalkStaysInSubtree ==
  (req.op = "walk" /\ Served) =>
    \A i \in 1..Len(res.results) :
      /\ res.results[i].oid # req.oid
      /\ Arcs(res.results[i].oid) # Arcs(req.oid)
      /\ IsPrefixOf(Arcs(req.oid), Arcs(res.results[i].oid))

\* a WALK of the system group was served
C3_Witness ==
  /\ req.op = "walk"
  /\ Served
  /\ req.oid = Oid(<<1, 3, 6, 1, 2, 1, 1>>)
  /\ res.rootOid = req.oid

\* C4: read-your-write: a GET of an OID made right after a successful SET
\* of that OID, on a manager still connected, returns the value set.
C4_ReadYourWrite ==
  [][(/\ req.op = "set"
      /\ res.success
      /\ req'.op = "get"
      /\ req'.oid = req.oid
      /\ connected')
     => (res'.success /\ res'.value = res.newValue)]_vars

\* C5: a SET that fails leaves the state as it was: the connection, the
\* listeners and the history are unchanged, every GET answers as before,
\* and the same SET made again fails the same way.
C5_FailedSetChangesNothing ==
  [][(req'.op = "set" /\ ~res'.success) =>
       /\ connected' = connected
       /\ UNCHANGED <<dispatchVars, historyVars>>
       /\ \A device \in Devices, oid \in StoredOids \cup {req'.oid} :
            snmpGetReturn(connected', device, oid) =
              snmpGetReturn(connected, device, oid)
       /\ \A device \in Devices, value \in SetValues, type \in SetTypes :
            snmpSetReturn(connected', device, req'.oid, value, type) = res'
     ]_vars

\* a SET of the read-only sysDescr failed on a connected manager
C5_Witness ==
  /\ req.op = "set"
  /\ connected
  /\ ~res.success
  /\ res.error = OidError(ReadOnlyText, Oid(<<1, 3, 6, 1, 2, 1, 1, 1, 0>>))

\* C6: a SET on a connected manager fails as not found when the OID is
\* absent, fails as not writable when the OID is present but not
\* read-write, and succeeds only on a present read-write OID; the caller
\* can tell the two failures apart.
C6_SetOutcomes ==
  (req.op = "set" /\ Served) =>
    LET present == req.oid \in StoredOids
        writable == present /\ mockData[req.oid].access = "read-write"
        reply == routeSetResponse(res)
    IN  /\ ~present =>
             /\ ~res.success
             /\ res.error.text = NotFoundText
             /\ reply.body.message.text = NotFoundText
        /\ (present /\ ~writable) =>
             /\ ~res.success
             /\ res.error.text = ReadOnlyText
             /\ reply.body.message.text = ReadOnlyText
        /\ res.success <=> writable
        /\ NotFoundText # ReadOnlyText

\* a SET of the read-write sysContact succeeded
C6_Witness ==
  /\ req.op = "set"
  /\ req.oid = Oid(<<1, 3, 6, 1, 2, 1, 1, 4, 0>>)
  /\ res.success
  /\ res.oldValue = "admin@company.com"

\* C7: a GET on a connected manager succeeds when the requested OID text is
\* a stored leaf's key, carrying exactly the requested OID with that leaf's
\* type and value, and fails as not found for every other text (an absent
\* OID, an internal node).
C7_GetOutcomes ==
  (req.op = "get" /\ Served) =>
    IF req.oid \in StoredOids
    THEN /\ res.success
         /\ res.oid = req.oid
         /\ res.value = mockData[req.oid].value
         /\ res.type = mockData[req.oid].type
    ELSE /\ ~res.success
         /\ res.error = OidError(NotFoundText, req.oid)

\* a GET of sysName succeeded
C7_Witness ==
  /\ req.op = "get"
  /\ req.oid = Oid(<<1, 3, 6, 1, 2, 1, 1, 5, 0>>)
  /\ res.success
  /\ res.value = "Router-01"

(***************************************************************************)
(* Properties of trap delivery                                             *)
(***************************************************************************)
Count(seq, x) == Cardinality({i \in DOMAIN seq : seq[i] = x})

InvokedCallbacks == [i \in DOMAIN invoked |-> invoked[i].callback]

\* C8: when simulateTrap returns, every callback that was subscribed when
\* it began and that no callback added or removed meanwhile has been
\* invoked once per registration, whatever the other callbacks did to the
\* list during the delivery.
C8_NoListenerSkipped ==
  pc = "returned" =>
    \A callback \in Callbacks \ touched :
      Count(InvokedCallbacks, callback) = Count(snapshot, callback)

\* C9: no exception leaves simulateTrap, and a delivery whose callbacks
\* only returned or threw has called every listener of the list, in order,
\* with the event.
C9_ThrowingListenerIsolated ==
  /\ pc # "raised"
  /\ (pc = "returned" /\ touched = {}) =>
       invoked = [i \in DOMAIN snapshot |->
                    [callback |-> snapshot[i], trapData |-> event]]

\* a delivery to <<cbA, cbB>> returned after cbA threw and cbB was called
C9_Witness ==
  /\ pc = "returned"
  /\ touched = {}
  /\ caught = <<"cbA">>
  /\ InvokedCallbacks = <<"cbA", "cbB">>

(***************************************************************************)
(* Properties of the trap history                                          *)
(***************************************************************************)
\* later arrivals stand before earlier ones, and no timestamp grows
\* towards the end of the list
NewestFirst(list) ==
  \A i \in 1..(Len(list) - 1) :
    /\ list[i].n > list[i + 1].n
    /\ list[i].timestamp >= list[i + 1].timestamp

\* C10: the history never holds more than 1000 traps and is ordered newest
\* first; an insert puts the new trap at the head and keeps the traps that
\* were there in their order, dropping exactly the oldest one when there
\* were already 1000.
C10_HistoryBounded ==
  /\ [](Len(traps) <= maxTraps /\ NewestFirst(traps))
  /\ [][nseq' = nseq + 1 =>
          /\ traps'[1].n = nseq'
          /\ Tail(traps') = IF Len(traps) < maxTraps
                            THEN traps
                            ELSE SubSeq(traps, 1, maxTraps - 1)]_vars

\* the history is full and its first arrival has been pushed out
C10_Witness ==
  /\ Len(traps) = maxTraps
  /\ traps[1].n = maxTraps + 1
  /\ traps[maxTraps].n = 2

(***************************************************************************)
(* Failures of the SNMP operations                                         *)
(***************************************************************************)
\* C11: an SNMP operation on a connected manager that fails (absent OID,
\* read-only OID, no next OID) hands the failure to its caller as a
\* returned result value; it does not throw.
C11_FailuresAreReturned ==
  (Served /\ ~res.success) => ~res.thrown

LargestStored ==
  CHOOSE s \in StoredArcs : \A t \in StoredArcs : t = s \/ OidLess(t, s)

\* C13: GETNEXT on a connected manager, asked for the largest stored OID
\* (1.3.6.1.2.1.2.2.1.2.3) or for any OID after it, fails with the
\* no-next-OID failure and never succeeds.
C13_EndOfTree ==
  /\ LargestStored = <<1, 3, 6, 1, 2, 1, 2, 2, 1, 2, 3>>
  /\ (req.op = "getnext" /\ Served /\ ~OidLess(Arcs(req.oid), LargestStored)) =>
       /\ ~res.success
       /\ res.error = OidError(NoNextText, req.oid)

\* GETNEXT of the largest stored OID, and of an OID after it, were served
C13_Witness ==
  /\ req.op = "getnext"
  /\ Served
  /\ req.oid \in {Oid(LargestStored), Oid(LargestStored \o <<0>>)}
  /\ ~res.success

\* C16: the result of a WALK carries a boolean field truncated, true
\* exactly when the walk stopped at the cap on results.
C16_TruncatedFlag ==
  (req.op = "walk" /\ Served) =>
    /\ "truncated" \in DOMAIN res
    /\ res.truncated \in BOOLEAN
    /\ res.truncated = (Len(res.results) = maxWalkResults)

\* C17: a WALK on a connected manager whose root has no stored OID below
\* it (a root that is absent from the tree included) succeeds with an empty
\* list and count 0.
C17_EmptyWalkSucceeds ==
  (req.op = "walk" /\ Served /\ SubtreeLeaves(Arcs(req.oid)) = {}) =>
    /\ res.success
    /\ res.results = <<>>
    /\ res.count = 0

\* a WALK of a root absent from the tree, with nothing below it, was served
C17_Witness ==
  /\ req.op = "walk"
  /\ Served
  /\ req.oid = Oid(<<1, 3, 6, 1, 2, 1, 10>>)
  /\ req.oid \notin StoredOids
  /\ SubtreeLeaves(Arcs(req.oid)) = {}
  /\ res.success

\* the values of SetValues that are decimal numbers
NumericValues == {"42"}

\* a declared type of snmpSetSchema and a value fit a node's type
TypeMatches(declared, value, nodeType) ==
  CASE declared \in {"string", "octet"} -> nodeType = "OCTET STRING"
    [] declared = "integer" ->
         nodeType \in {"INTEGER", "TimeTicks"} /\ value \in NumericValues
    [] declared = "oid" -> nodeType = "OBJECT IDENTIFIER"
    [] OTHER -> FALSE

\* C18: a SET whose declared type or value does not fit the target node's
\* type is rejected: a SET that succeeds has a type and a value that fit.
C18_WrongTypeRejected ==
  (req.op = "set" /\ res.success) =>
    TypeMatches(res.type, res.newValue, mockData[req.oid].type)

(***************************************************************************)
(* Properties of the routes of /api/snmp                                   *)
(***************************************************************************)
\* the failures a well-formed request can end in: the manager is not
\* connected, or the operation failed
IsProtocolFailure(h) ==
  /\ h.status = "500"
  /\ h.body.error \in {GetFailed, SetFailed, GetNextFailed, WalkFailed}

\* C12: a request to /get, /set, /getnext or /walk whose oid does not match
\* the pattern is answered 400 'Validation error' and the step calls no
\* operation of the service; a request answered 400 is never a protocol
\* failure, and a request whose body passes validation is never answered
\* 400.
C12_MalformedOidRejected ==
  /\ [](http.status # "none" =>
          /\ ~WellFormed(http.request.oid) =>
               /\ http.status = "400"
               /\ http.body = ValidationError
               /\ ~IsProtocolFailure(http)
          /\ IsProtocolFailure(http) =>
               /\ WellFormed(http.request.oid)
               /\ http.body # ValidationError)
  /\ [][(http' # http /\ ~WellFormed(http'.request.oid)) =>
          UNCHANGED <<connected, req, res>>]_vars

\* a connected manager served a GET, and the next request, with oid
\* '1..3', was answered 400
C12_Witness ==
  /\ connected
  /\ req.op = "get"
  /\ res.success
  /\ http.status = "400"
  /\ http.route = "/getnext"
  /\ http.request.oid = <<"1", ".", ".", "3">>

(***************************************************************************)
(* Properties of iterated GETNEXT                                          *)
(***************************************************************************)
StrictlyIncreasing(oids) ==
  \A i, j \in DOMAIN oids : i < j => OidLess(Arcs(oids[i]), Arcs(oids[j]))

\* the iteration has ended with the no-next-OID failure
ChainEnded ==
  /\ req.op = "getnext"
  /\ ~res.success
  /\ res.error = OidError(NoNextText, chain.oids[Len(chain.oids)])

\* C14: the OIDs of an iteration of GETNEXT, from the OID first asked for
\* on, are strictly increasing in arc-by-arc order, so none occurs twice,
\* and the iteration ends, after at most as many answers as there are
\* stored OIDs, with the no-next-OID failure.
C14_ChainIncreasesAndEnds ==
  /\ [](/\ StrictlyIncreasing(chain.oids)
        /\ Len(chain.oids) <= Cardinality(StoredOids) + 1)
  /\ <>ChainEnded

\* an iteration from ifDescr.0 went through ifDescr.1, .2 and .3 and ended
C14_Witness ==
  /\ chain.oids = << Oid(<<1, 3, 6, 1, 2, 1, 2, 2, 1, 2, 0>>),
                     Oid(<<1, 3, 6, 1, 2, 1, 2, 2, 1, 2, 1>>),
                     Oid(<<1, 3, 6, 1, 2, 1, 2, 2, 1, 2, 2>>),
                     Oid(<<1, 3, 6, 1, 2, 1, 2, 2, 1, 2, 3>>) >>
  /\ ChainEnded

(***************************************************************************)
(* Properties of the walk loop                                             *)
(***************************************************************************)
\* C15: every call of snmpWalk on a connected manager comes to its return,
\* the list it collects never has more than 50 entries, and what it
\* returns is the result computed by walkLoop.
C15_WalkTerminates ==
  /\ [](walk.pc \in {"looping", "built"} =>
          /\ Len(walk.results) <= maxWalkResults
          /\ walk.walkCount = Len(walk.results))
  /\ [](walk.pc = "returned" =>
          /\ Len(res.results) <= maxWalkResults
          /\ res = snmpWalkReturn(TRUE, walk.device, walk.oid))
  /\ [](walk.pc = "looping" => <>(walk.pc = "returned"))

\* a walk of the interfaces table has returned
C15_Witness ==
  /\ walk.pc = "returned"
  /\ walk.oid = Oid(<<1, 3, 6, 1, 2, 1, 2, 2, 1, 2>>)
  /\ res.success
  /\ res.count <= maxWalkResults

(***************************************************************************)
(* Properties of trap publication and the history                          *)
(***************************************************************************)
\* the history holds a trap made from trapData
Retained(trapData) ==
  \E j \in DOMAIN traps :
    /\ traps[j].id = trapData.id
    /\ traps[j].deviceId = trapData.deviceId
    /\ traps[j].severity = trapData.severity

\* C19: once simulateTrap has returned from calling the listeners, every
\* trap the periodic timer has published is in the history that GET
\* /api/traps serves (no trap is inserted or deleted here, so none can have
\* been evicted).
C19_PublishedIsStored ==
  (pc = "returned" /\ invoked # <<>>) =>
    \A i \in DOMAIN published : Retained(published[i])

(***************************************************************************)
(* Properties of GET /api/traps                                            *)
(***************************************************************************)
\* the traps of the history that match every filter given
Matching(query) ==
  SelectSeq(traps, LAMBDA trap :
    /\ query.severity # "" => trap.severity = query.severity
    /\ query.deviceId # "" => trap.deviceId = query.deviceId)

\* the elements of list at the 0-based positions from, from + 1, ..., to - 1
Positions(list, from, to) ==
  SubSeq(list, (IF from < 0 THEN 0 ELSE from) + 1,
               IF to > Len(list) THEN Len(list) ELSE to)

\* C20: the answer of GET /api/traps holds exactly the matching traps at
\* the positions offset, ..., offset + limit - 1 of the newest-first
\* history, total is the number of matching traps, and the page has at most
\* limit entries.
C20_PageOfMatching ==
  [][(http' # http /\ http'.route = "GET /api/traps") =>
       LET body == http'.body IN
         /\ traps' = traps
         /\ body.traps = Positions(Matching(http'.request), body.offset,
                                   body.offset + body.limit)
         /\ body.total = Len(Matching(http'.request))
         /\ body.limit >= 0 => Len(body.traps) <= body.limit]_vars

(***************************************************************************)
(* Properties of the device store                                          *)
(***************************************************************************)
\* the store's record of the device with this id, when it has one
Stored(list, id) == {list[i] : i \in {j \in DOMAIN list : list[j].id = id}}

\* C21: when POST /api/snmp/get is answered with the operation's successful
\* result, the store's device of that id is online and its lastSeen is the
\* time of the operation.  (The mock has no timeout or network error, so
\* the offline half of the claim has no case in the code.)
C21_SuccessMarksOnline ==
  [][(/\ http' # http
      /\ http'.route = "/get"
      /\ http'.status = "200")
     => \A device \in Stored(devices', http'.request.deviceId) :
          /\ device.status = "online"
          /\ device.lastSeen = Time(now)]_vars

\* every id a device can have
AllIds == {"1", "2"} \cup Range(Uuids)

\* the step is answered by the connection test of this device
TestOf(id) ==
  /\ http'.route = "POST /api/devices/:id/test"
  /\ http'.request.id = id

\* the step is answered by an operation on this device
OperationOn(id) ==
  /\ http'.route = "/get"
  /\ http'.request.deviceId = id

\* C22: a step changes the status or the lastSeen of a device that is in
\* the store before and after it only if it is the connection test of that
\* device (or an operation on it): POST, PUT and DELETE /api/devices leave
\* them alone.  A test that finds the device unreachable leaves its
\* lastSeen as it was.
C22_LivenessFrame ==
  [][\A id \in AllIds :
       \A before \in Stored(devices, id), after \in Stored(devices', id) :
         /\ before.status # after.status => TestOf(id) \/ OperationOn(id)
         /\ before.lastSeen # after.lastSeen =>
              \/ TestOf(id) /\ http'.request.isOnline
              \/ OperationOn(id)]_vars

\* device 2, seen by an earlier test, was then found unreachable: it is
\* offline and its lastSeen is still the earlier test's
C22_Witness ==
  /\ http.status = "200"
  /\ http.route = "POST /api/devices/:id/test"
  /\ http.request.id = "2"
  /\ ~http.request.isOnline
  /\ \E device \in Stored(devices, "2") :
       device.status = "offline" /\ device.lastSeen = Time(1)

\* C23: the device a POST /api/devices has just registered is reported
\* neither as online nor as offline.
C23_NewDeviceUnknown ==
  [][(/\ http' # http
      /\ http'.route = "POST /api/devices"
      /\ http'.status = "201")
     => \A device \in Stored(devices', http'.body.id) :
          device.status \notin {"online", "offline"}]_vars

(***************************************************************************)
(* Properties of a delivery with a listener that does not return           *)
(***************************************************************************)
\* C24: every simulateTrap that has begun to call the listeners returns,
\* with every listener that was subscribed when it began invoked, also when
\* one of the listeners does not return.
C24_BlockedListenerIsolated ==
  (pc = "delivering") ~> (pc = "returned" /\ Len(invoked) = len)

(***************************************************************************)
(* Properties of the read operations and of the connection                 *)
(***************************************************************************)
\* C25: snmpGet, snmpGetNext and snmpWalk, whatever they are asked and
\* whatever they answer, leave the connected flag, the listener list and
\* everything else but the answer unchanged; every stored OID reads, with
\* value and type, as it did before.  (The table of values and access
\* policies is a literal of getMockSnmpData, built anew at each call.)
C25_ReadsChangeNothing ==
  [][(req'.op \in {"get", "getnext", "walk"}) =>
       /\ connected' = connected
       /\ trapListeners' = trapListeners
       /\ UNCHANGED <<dispatchVars, historyVars, otherVars, deviceVars>>
       /\ \A oid \in StoredOids :
            snmpGetReturn(connected', getDeviceById("1"), oid) =
              snmpGetReturn(connected, getDeviceById("1"), oid)
     ]_vars

\* a GETNEXT failed at the end of the tree and the manager is still
\* connected
C25_Witness ==
  /\ req.op = "getnext"
  /\ connected
  /\ ~res.success
  /\ res.error # NotConnectedError

\* C28: an snmpGet, snmpSet, snmpGetNext or snmpWalk made while the manager
\* is not connected fails with 'SNMP Manager not connected' and carries
\* nothing but the failure, whatever the OID; one made while it is
\* connected (after any earlier disconnect) does not fail that way.
C28_NotConnectedFails ==
  (req.op \in {"get", "set", "getnext", "walk"}) =>
    IF connected
    THEN res.success \/ res.error # NotConnectedError
    ELSE /\ res = Thrown(req.op, NotConnectedError)
         /\ DOMAIN res = {"op", "success", "thrown", "error"}

\* a WALK was refused on a manager that is not connected
C28_Witness ==
  /\ req.op = "walk"
  /\ ~connected
  /\ res.error = NotConnectedError

\* C26: the operations routes resolve an id to a device (getDeviceById)
\* exactly when the device store holds a device of that id.
C26_RoutesResolveStoreIds ==
  \A id \in AllIds :
    (getDeviceById(id) # undefined) <=> (Stored(devices, id) # {})

(***************************************************************************)
(* Properties of removeTrapListener                                        *)
(***************************************************************************)
\* how many times the list holds the callback
Registrations(list, callback) ==
  Cardinality({i \in DOMAIN list : list[i] = callback})

\* C27: when removeTrapListener(cb), called between deliveries, has taken a
\* registration of cb off the list, the list simulateTrap calls no longer
\* holds cb, whatever addTrapListener calls came before.
C27_RemovedIsGone ==
  [][(Idle /\ pc' = pc /\ Len(trapListeners') < Len(trapListeners)) =>
       \A callback \in Callbacks :
         Registrations(trapListeners', callback) <
             Registrations(trapListeners, callback)
           => callback \notin Range(trapListeners')]_vars

\* no two devices of the list share an id or an ipAddress
Unique(list) ==
  \A i, j \in DOMAIN list :
    i # j => /\ list[i].id # list[j].id
             /\ list[i].ipAddress # list[j].ipAddress

\* C29: after every create, update, delete and connection test the store
\* has no two devices with the same id or the same ipAddress, and a request
\* answered 409 leaves the store as it was.  (uuidv4 is taken to hand out
\* an id it has not handed out before.)
C29_UniqueDevices ==
  [][/\ Unique(devices)
     /\ Unique(devices')
     /\ (http' # http /\ http'.status = "409") => devices' = devices
    ]_vars

\* a PUT that named another device's address was answered 409
C29_Witness ==
  /\ http.status = "409"
  /\ http.route = "PUT /api/devices/:id"
  /\ http.request.id = "1"
  /\ \E device \in Stored(devices, "2") :
       device.ipAddress = http.request.body.ipAddress

\* the fields of a stored device
DeviceFields ==
  SchemaKeys \cup {"id", "status", "lastSeen", "createdAt", "updatedAt"}

\* C30: a PUT /api/devices/:id answered 200 gives the device the fields its
\* body names and a new updatedAt, and leaves every other field (id,
\* createdAt, status, lastSeen, and the configurable fields the body does
\* not name) as it was.
C30_PutChangesNamedFieldsOnly ==
  [][(/\ http' # http
      /\ http'.status = "200"
      /\ http'.route = "PUT /api/devices/:id")
     => \A before \in Stored(devices, http'.request.id),
           after \in Stored(devices', http'.request.id) :
          /\ \A field \in DOMAIN http'.request.body :
               after[field] = http'.request.body[field]
          /\ after.updatedAt = Time(now)
          /\ \A field \in DeviceFields \ (DOMAIN http'.request.body \cup {"updatedAt"}) :
               after[field] = before[field]]_vars

====
